---- MODULE Spec2Model ----
(***************************************************************************)
(* Model of the agent process supervisor of astron-browser.                *)
(*                                                                         *)
(* The terminal supervisor (src/hooks/use-daemon.ts, useDaemon) owns one   *)
(* child process handle, the readiness and task-running flags, and one     *)
(* stdout reader loop per spawned child.  Text is modelled by TLA+         *)
(* strings, one character per element, so that split, trim, includes,      *)
(* startsWith and replace are computed as the code computes them.          *)
(*                                                                         *)
(* Spec       : the lifecycle (start, stop, send, stdout chunks, exits).    *)
(* SpecDecode : the stdout reader of one child over a richer chunk set.    *)
(* SpecTags   : the stdout reader over tagged, plain and blank segments.   *)
(* SpecStderr : the stderr reader of one child.                            *)
(* SpecNoise  : the stderr reader of the single-file App.                  *)
(* SpecStop   : stop and restart against both reader loops, fair teardown. *)
(* SpecStreams: both readers of one child while tasks are sent.            *)
(* SpecOnboard: the App from its first render, through useOnboarding.      *)
(* SpecApp    : the App component of the CLI on top of useDaemon.          *)
(* SpecOneShot: the App started with a prompt, with fair program steps.    *)
(* SpecWeb    : the web server (web/server.ts) and its websocket clients.  *)
(* SpecClient : the useWebSocket hook of the web page and its sockets.     *)
(* SpecAgree  : useDaemon and the web server reading the same stdout.      *)
(***************************************************************************)
EXTENDS Integers, Sequences, FiniteSets, TLC

\* ------------------------------------------------------------------ bounds
MaxChildren == 2        \* spawns per run
MaxInputs   == 3        \* sendTask calls plus stdout chunks read per run
MaxDecode   == 3        \* stdout chunks read in the decoder runs
MaxStderr   == 3        \* stderr chunks read in the stderr runs
MaxWebSteps == 3        \* spawns, messages and chunks handled by the server per run
MaxTagReads == 2        \* stdout chunks read in the dispatch runs
MaxStreams  == 4        \* sends and chunks of both streams in the two-reader runs
MaxStopReads == 1       \* chunks of both streams read in the teardown runs
MaxAgree == 3           \* chunks read by both supervisors per run
MaxSockets == 3         \* sockets the web client creates per run
MaxEvents == 2          \* messages the server sends to the page per run

\* ------------------------------------------------------- protocol literals
DONE_MARKER == "__DONE__"
SENTINEL    == "Browser started"
ERROR_TAG   == "[error]"
DAEMON_TAG  == "[daemon]"
SYSTEM_TAG  == "[system]"
NOT_READY   == "Daemon is not ready yet. Please wait..."
STOPPED_MSG == "Browser daemon stopped"
DONE_TEXT   == "Task completed"

\* ------------------------------------------------------------ text helpers
\* String.prototype.trim: the white space the child can put on a line
IsWs(s, i) == SubSeq(s, i, i) \in {" ", "\n", "\t", "\r"}

RECURSIVE TrimStart(_)
TrimStart(s) ==
    IF Len(s) > 0 /\ IsWs(s, 1) THEN TrimStart(SubSeq(s, 2, Len(s))) ELSE s

RECURSIVE TrimEnd(_)
TrimEnd(s) ==
    IF Len(s) > 0 /\ IsWs(s, Len(s)) THEN TrimEnd(SubSeq(s, 1, Len(s) - 1)) ELSE s

Trim(s) == TrimEnd(TrimStart(s))

\* String.prototype.indexOf, 1-based; 0 when sub does not occur
IndexOf(s, sub) ==
    LET hits == {i \in 1..(Len(s) - Len(sub) + 1) : SubSeq(s, i, i + Len(sub) - 1) = sub}
    IN  IF hits = {} THEN 0 ELSE CHOOSE i \in hits : \A j \in hits : i <= j

Includes(s, sub) == IndexOf(s, sub) # 0

StartsWith(s, pre) == Len(s) >= Len(pre) /\ SubSeq(s, 1, Len(pre)) = pre

\* String.prototype.split(sep) for a non-empty separator
RECURSIVE Split(_, _)
Split(s, sep) ==
    LET i == IndexOf(s, sep)
    IN  IF i = 0 THEN <<s>>
        ELSE <<SubSeq(s, 1, i - 1)>> \o Split(SubSeq(s, i + Len(sep), Len(s)), sep)

\* String.prototype.replace(sub, ""): removes the first occurrence only
RemoveFirst(s, sub) ==
    LET i == IndexOf(s, sub)
    IN  IF i = 0 THEN s
        ELSE SubSeq(s, 1, i - 1) \o SubSeq(s, i + Len(sub), Len(s))

\* replace(/\[(daemon|system)\]/, ""): removes the leftmost match of either tag
RemoveFirstTag(s) ==
    LET d == IndexOf(s, DAEMON_TAG)
        y == IndexOf(s, SYSTEM_TAG)
    IN  IF d = 0 /\ y = 0 THEN s
        ELSE IF y = 0 \/ (d # 0 /\ d < y) THEN RemoveFirst(s, DAEMON_TAG)
        ELSE RemoveFirst(s, SYSTEM_TAG)

\* number of (non-overlapping, left to right) occurrences of sub in s
RECURSIVE Occurrences(_, _)
Occurrences(s, sub) ==
    LET i == IndexOf(s, sub)
    IN  IF i = 0 THEN 0
        ELSE 1 + Occurrences(SubSeq(s, i + Len(sub), Len(s)), sub)

RECURSIVE Concat(_)
Concat(chunks) ==
    IF chunks = <<>> THEN "" ELSE Head(chunks) \o Concat(Tail(chunks))

Msg(type, text) == [type |-> type, text |-> text]

\* ------------------------------------------------------------------- state
VARIABLES
    daemonRef,          \* daemonRef.current: 0 (null) or the id of a child
    isReadyRef,         \* isReadyRef.current
    isReady,            \* React state set by setIsReady
    isTaskRunningRef,   \* isTaskRunningRef.current
    messages,           \* the list addMessage appends to
    children,           \* the spawn attempts so far, in order
    readyNotes,         \* setIsReady(true) calls since the last stopDaemon()
    sentinelSegs,       \* sentinel-carrying stdout segments since the last stopDaemon()
    nSends,             \* sendTask calls so far
    \* the App component and its process
    appPrompt,          \* the prompt argument: "" in daemon mode
    daemonStarted,      \* daemonStarted.current
    initialPromptSent,  \* initialPromptSent.current
    loading,            \* React state set by setLoading
    config,             \* React state set by setConfig: provider and model
    exited,             \* the CLI process has exited
    \* the useOnboarding hook
    stage,              \* check | pick-provider | enter-key | done
    pending,            \* the provider and model picked, NoPending if none
    apiKeys,            \* config.apiKeys: the providers that have a key
    configFile,         \* ~/.astron/config.json as last written or found
    \* the web server (web/server.ts)
    srvProcess,         \* daemon.process: 0 (null) or the id of a child
    srvReady,           \* daemon.isReady
    clients,            \* daemon.clients: sockets in insertion order
    conns,              \* the websocket connection of each socket
    bcastLog,           \* the events passed to broadcast so far, in order
    nMsgs,              \* websocket messages handled so far
    pendingStarts,      \* startDaemon calls waiting in ensureDependencies
    hostExited,         \* the server process has reached process.exit
    \* the useWebSocket hook of the web client (web/src/hooks/useWebSocket.ts)
    effect,             \* the connect effect: pending | run | cleaned
    webSockets,         \* the sockets connect() created, in order: readyState
    wsRef,              \* wsRef.current: 0 (null) or the index of a socket
    timeouts,           \* the timers onclose set, in order: armed | fired | cleared
    reconnectTimer,     \* reconnectTimer.current: 0 (undefined) or the index of a timer
    isConnected,        \* React state set by setIsConnected
    status,             \* React state set by setStatus
    isTaskRunning,      \* React state set by setIsTaskRunning
    webMessages,        \* the list the hook's addMessage appends to
    nEvents             \* messages the server has sent to the page so far

hookVars == <<daemonRef, isReadyRef, isReady, isTaskRunningRef, messages,
              children, readyNotes, sentinelSegs, nSends>>

appVars == <<appPrompt, daemonStarted, initialPromptSent, loading, config, exited>>

onbVars == <<stage, pending, apiKeys, configFile>>

wcVars == <<effect, webSockets, wsRef, timeouts, reconnectTimer, isConnected,
            status, isTaskRunning, webMessages, nEvents>>

srvVars == <<srvProcess, srvReady, clients, conns, bcastLog, nMsgs,
             pendingStarts, hostExited>>

webVars == <<srvVars, wcVars>>

\* what an operation of the useDaemon hook leaves alone
outerVars == <<appVars, onbVars, webVars>>

vars == <<hookVars, appVars, onbVars, webVars>>

Child(c) == children[c]
ChildIds == 1..Len(children)

\* stdout chunks consumed so far, over all children
RECURSIVE ChunksRead(_)
ChunksRead(ch) ==
    IF ch = <<>> THEN 0 ELSE Len(Head(ch).out) + ChunksRead(Tail(ch))

\* sendTask calls and stdout chunks so far
InputsUsed == nSends + ChunksRead(children)

\* a freshly spawned child with its stdin pipe and its stdout reader loop
NewChild(cfg) ==
    [ args       |-> cfg,
      alive      |-> TRUE,       \* the process has not exited
      stdinEnded |-> FALSE,      \* stdin.end() was called
      stdin      |-> <<>>,       \* what was flushed into the stdin pipe
      stdinBuf   |-> "",         \* written to the sink, not flushed yet
      stdoutPc   |-> "reading",  \* stdout reader loop: reading | done
      stderrPc   |-> "reading",  \* stderr reader loop: reading | done
      out        |-> <<>>,       \* stdout chunks the reader has consumed
      err        |-> <<>> ]      \* stderr chunks the reader has consumed

\* a spawn attempt for which Bun.spawn threw: no process, no pipes, no readers
FailedChild(cfg) ==
    [ args       |-> cfg,
      alive      |-> FALSE,
      stdinEnded |-> FALSE,
      stdin      |-> <<>>,
      stdinBuf   |-> "",
      stdoutPc   |-> "failed",
      stderrPc   |-> "failed",
      out        |-> <<>>,
      err        |-> <<>> ]

\* DEFAULT_CONFIG: provider and model
DEFAULT_CONFIG == [provider |-> "browser-use", model |-> "default"]

\* the App component right after its first render, onboarding done, daemon mode
\* pending: null
NoPending == [provider |-> "", model |-> ""]

\* JSON.stringify(config): provider, model and the keys
FileOf(cfg, keys) ==
    [provider |-> cfg.provider, model |-> cfg.model, apiKeys |-> keys]

\* onboarding is over: the stored configuration has a key for its provider
\* and the main App is rendered
Onboarded ==
    /\ stage = "done"
    /\ pending = NoPending
    /\ apiKeys = {config.provider}
    /\ configFile = FileOf(config, apiKeys)

AppMounted ==
    /\ appPrompt = ""
    /\ daemonStarted = FALSE
    /\ initialPromptSent = FALSE
    /\ loading = FALSE
    /\ config = DEFAULT_CONFIG
    /\ exited = FALSE
    /\ Onboarded

\* the sockets that connect in the runs, in the order in which they connect
SocketOrder == <<"ws1", "ws2">>

Sockets == {SocketOrder[i] : i \in DOMAIN SocketOrder}

\* a socket before its upgrade request
NoConn == [state |-> "CONNECTING", inbox |-> <<>>, joined |-> 0]

\* no web server in the run
\* the hook as rendered for the first time, its effect not yet run
HookRendered ==
    /\ effect = "pending"
    /\ webSockets = <<>>
    /\ wsRef = 0
    /\ timeouts = <<>>
    /\ reconnectTimer = 0
    /\ isConnected = FALSE
    /\ status = "disconnected"
    /\ isTaskRunning = FALSE
    /\ webMessages = <<>>
    /\ nEvents = 0

WebAbsent ==
    /\ HookRendered
    /\ srvProcess = 0
    /\ srvReady = FALSE
    /\ clients = <<>>
    /\ conns = [w \in Sockets |-> NoConn]
    /\ bcastLog = <<>>
    /\ nMsgs = 0
    /\ pendingStarts = 0
    /\ hostExited = FALSE

Init ==
    /\ AppMounted
    /\ WebAbsent
    /\ daemonRef = 0
    /\ isReadyRef = FALSE
    /\ isReady = FALSE
    /\ isTaskRunningRef = FALSE
    /\ messages = <<>>
    /\ children = <<>>
    /\ readyNotes = 0
    /\ sentinelSegs = 0
    /\ nSends = 0

\* ------------------------------------------------------------ input domains
\* the configurations startDaemon is called with: provider and model of
\* DEFAULT_CONFIG
Configs == { DEFAULT_CONFIG }

Prompts == {"x"}

\* stdout chunks the child produces in the lifecycle runs
LifeChunks == { "Browser started", "ok__DONE__" }

\* the stream of the decoding scenario
SCENARIO == "hello__DONE__[error] boom\n[daemon] restarting__DONE__world"

\* stdout chunks of the decoder runs: whole messages, fragments that cut the
\* marker and the sentinel, a two-byte character cut in the middle
DecodeChunks ==
    { SCENARIO, "hello", "__DO", "NE__", "Browser ", "started\n",
      "[system] up", "caf{", "}", "  \n" }

\* ------------------------------------------------------------ stdout decoder
\* new TextDecoder().decode(value), without {stream: true}.  Bytes below 0x80
\* decode to themselves.  "{" and "}" stand for the lead and the continuation
\* byte of one two-byte character, which decodes to "E"; a lead byte that is
\* not followed by its continuation byte inside the same chunk, and a
\* continuation byte without a lead byte, decode to "?" (U+FFFD).
RECURSIVE Decode(_)
Decode(bytes) ==
    IF Len(bytes) = 0 THEN ""
    ELSE IF Len(bytes) >= 2 /\ SubSeq(bytes, 1, 2) = "{}"
         THEN "E" \o Decode(SubSeq(bytes, 3, Len(bytes)))
    ELSE IF SubSeq(bytes, 1, 1) \in {"{", "}"}
         THEN "?" \o Decode(SubSeq(bytes, 2, Len(bytes)))
    ELSE SubSeq(bytes, 1, 1) \o Decode(SubSeq(bytes, 2, Len(bytes)))

\* the prefix dispatch of a non-empty trimmed segment
ClassifyKeepTag(trimmed) ==
    IF StartsWith(trimmed, ERROR_TAG)
    THEN Msg("error", trimmed)
    ELSE IF StartsWith(trimmed, DAEMON_TAG) \/ StartsWith(trimmed, SYSTEM_TAG)
    THEN Msg("system", trimmed)
    ELSE Msg("agent", trimmed)

Classify(trimmed) ==
    IF StartsWith(trimmed, ERROR_TAG)
    THEN Msg("error", Trim(RemoveFirst(trimmed, ERROR_TAG)))
    ELSE IF StartsWith(trimmed, DAEMON_TAG) \/ StartsWith(trimmed, SYSTEM_TAG)
    THEN Msg("system", Trim(RemoveFirstTag(trimmed)))
    ELSE Msg("agent", trimmed)

\* the readiness latch: !isReadyRef.current && trimmed.includes("Browser started")
ShouldLatchNoGuard(ready, trimmed) == Includes(trimmed, SENTINEL)

ShouldLatch(ready, trimmed) == ~ready /\ Includes(trimmed, SENTINEL)

\* what the reader loop reads and writes while it handles one chunk
ReaderState ==
    [ ready   |-> isReadyRef,
      shown   |-> isReady,
      running |-> isTaskRunningRef,
      msgs    |-> messages,
      notes   |-> readyNotes,
      segs    |-> sentinelSegs ]

\* "Every __DONE__ delimiter = task finished": the body of
\* if (i < parts.length - 1)
OnMarkerWhileRunning(st) ==
    IF st.running
    THEN [st EXCEPT !.running = FALSE,
                    !.msgs = Append(@, Msg("done", DONE_TEXT))]
    ELSE st

OnMarker(st) ==
    [st EXCEPT !.running = FALSE,
               !.msgs = Append(@, Msg("done", DONE_TEXT))]

\* else if (trimmed) / if (text.trim()): the segment has something to show
HasTextAlways(trimmed) == TRUE

HasText(trimmed) == trimmed # ""

\* one iteration of the for loop over parts; last = (i = parts.length - 1)
HandlePartDoneAfterLast(st, text, last) ==
    LET trimmed == Trim(text)
        s1 == IF ShouldLatch(st.ready, trimmed)
              THEN [st EXCEPT !.ready = TRUE, !.shown = TRUE, !.notes = @ + 1]
              ELSE IF HasText(trimmed)
              THEN [st EXCEPT !.msgs = Append(@, Classify(trimmed))]
              ELSE st
        s2 == [s1 EXCEPT !.segs = @ + (IF Includes(trimmed, SENTINEL) THEN 1 ELSE 0)]
    IN  OnMarker(s2)

HandlePart(st, text, last) ==
    LET trimmed == Trim(text)
        s1 == IF ShouldLatch(st.ready, trimmed)
              THEN [st EXCEPT !.ready = TRUE, !.shown = TRUE, !.notes = @ + 1]
              ELSE IF HasText(trimmed)
              THEN [st EXCEPT !.msgs = Append(@, Classify(trimmed))]
              ELSE st
        s2 == [s1 EXCEPT !.segs = @ + (IF Includes(trimmed, SENTINEL) THEN 1 ELSE 0)]
    IN  IF ~last THEN OnMarker(s2) ELSE s2

RECURSIVE ProcessParts(_, _)
ProcessParts(st, parts) ==
    IF parts = <<>> THEN st
    ELSE ProcessParts(HandlePart(st, Head(parts), Len(parts) = 1), Tail(parts))

\* the body of the while loop for one chunk
OnStdoutChunk(st, value) == ProcessParts(st, Split(Decode(value), DONE_MARKER))

\* ----------------------------------------------------------------- actions
\* stopDaemon's effect on the process table
EndStdinNothing(ch, d) == ch

EndStdin(ch, d) ==
    IF d # 0 THEN [ch EXCEPT ![d].stdinEnded = TRUE] ELSE ch

StopDaemon ==
    /\ children' = EndStdin(children, daemonRef)
    /\ daemonRef' = 0
    /\ isReadyRef' = FALSE
    /\ isReady' = FALSE
    /\ readyNotes' = 0
    /\ sentinelSegs' = 0
    /\ UNCHANGED <<isTaskRunningRef, messages, nSends>>

\* startDaemon: stopDaemon(), then spawn and start the two readers
\* msgs: the message list at the time of the call
StartDaemonFrom(msgs, cfg) ==
    /\ Len(children) < MaxChildren
    /\ children' = Append(EndStdin(children, daemonRef), NewChild(cfg))
    /\ daemonRef' = Len(children) + 1
    /\ isReadyRef' = FALSE
    /\ isReady' = FALSE
    /\ readyNotes' = 0
    /\ sentinelSegs' = 0
    /\ messages' = msgs
    /\ UNCHANGED <<isTaskRunningRef, nSends>>

StartDaemon(cfg) == StartDaemonFrom(messages, cfg)

\* startDaemon when Bun.spawn throws: stopDaemon() and syncEnvFile(cfg) have
\* run, the exception leaves startDaemon before daemonRef.current is assigned
StartDaemonFails(cfg) ==
    /\ Len(children) < MaxChildren
    /\ children' = Append(EndStdin(children, daemonRef), FailedChild(cfg))
    /\ daemonRef' = 0
    /\ isReadyRef' = FALSE
    /\ isReady' = FALSE
    /\ readyNotes' = 0
    /\ sentinelSegs' = 0
    /\ UNCHANGED <<isTaskRunningRef, messages, nSends>>

\* stdin.write(s): the sink buffers the text
SinkWrite(ch, s) == [ch EXCEPT !.stdinBuf = @ \o s]

\* stdin.flush(): the buffered text goes into the pipe
SinkFlush(ch) ==
    [ch EXCEPT !.stdin = IF ch.stdinBuf = "" THEN @ ELSE Append(@, ch.stdinBuf),
               !.stdinBuf = ""]

\* taskPrompt + "\n" / prompt + "\n"
StdinLineNoNewline(taskPrompt) == taskPrompt

StdinLine(taskPrompt) == taskPrompt \o "\n"

\* msgs: the message list at the time of the call
SendTaskFrom(msgs, taskPrompt) ==
    /\ InputsUsed < MaxInputs
    /\ nSends' = nSends + 1
    /\ IF daemonRef = 0 \/ ~isReadyRef
       THEN /\ messages' = Append(msgs, Msg("error", NOT_READY))
            /\ UNCHANGED <<isTaskRunningRef, children>>
       ELSE /\ isTaskRunningRef' = TRUE
            /\ children' = [children EXCEPT
                   ![daemonRef] = SinkFlush(SinkWrite(@, StdinLine(taskPrompt)))]
            /\ messages' = msgs
    /\ UNCHANGED <<daemonRef, isReadyRef, isReady, readyNotes, sentinelSegs>>

SendTask(taskPrompt) == SendTaskFrom(messages, taskPrompt)

\* the stdout reader of child c gets one chunk and handles it
StdoutRead(c, value, max) ==
    /\ c \in ChildIds
    /\ Child(c).stdoutPc = "reading"
    /\ Child(c).alive
    /\ max - ChunksRead(children) > 0
    /\ LET st == OnStdoutChunk(ReaderState, value)
       IN  /\ isReadyRef' = st.ready
           /\ isReady' = st.shown
           /\ isTaskRunningRef' = st.running
           /\ messages' = st.msgs
           /\ readyNotes' = st.notes
           /\ sentinelSegs' = st.segs
    /\ children' = [children EXCEPT ![c].out = Append(@, value)]
    /\ UNCHANGED <<daemonRef, nSends>>

\* the stdout reader of child c sees end-of-data and leaves its loop
StdoutEOF(c) ==
    /\ c \in ChildIds
    /\ Child(c).stdoutPc = "reading"
    /\ ~Child(c).alive
    /\ messages' = Append(messages, Msg("system", STOPPED_MSG))
    /\ children' = [children EXCEPT ![c].stdoutPc = "done"]
    /\ UNCHANGED <<daemonRef, isReadyRef, isReady, isTaskRunningRef,
                   readyNotes, sentinelSegs, nSends>>

\* the child process exits (its stdin was closed, or it crashed) and its
\* output pipes reach end-of-data
ChildExit(c) ==
    /\ c \in ChildIds
    /\ Child(c).alive
    /\ children' = [children EXCEPT ![c].alive = FALSE]
    /\ UNCHANGED <<daemonRef, isReadyRef, isReady, isTaskRunningRef, messages,
                   readyNotes, sentinelSegs, nSends>>

Next ==
    \/ \E cfg \in Configs : StartDaemon(cfg) /\ UNCHANGED outerVars
    \/ \E cfg \in Configs : StartDaemonFails(cfg) /\ UNCHANGED outerVars
    \/ StopDaemon /\ UNCHANGED outerVars
    \/ \E p \in Prompts : SendTask(p) /\ UNCHANGED outerVars
    \/ \E c \in ChildIds, v \in LifeChunks :
           StdoutRead(c, v, MaxInputs - nSends) /\ UNCHANGED outerVars
    \/ \E c \in ChildIds : StdoutEOF(c) /\ UNCHANGED outerVars
    \/ \E c \in ChildIds : ChildExit(c) /\ UNCHANGED outerVars

Spec == Init /\ [][Next]_vars

\* ------------------------------------------------- decoder specification
\* one child has just been started; only its stdout reader runs
InitDecode ==
    /\ AppMounted
    /\ WebAbsent
    /\ daemonRef = 1
    /\ isReadyRef = FALSE
    /\ isReady = FALSE
    /\ isTaskRunningRef = FALSE
    /\ messages = <<>>
    /\ \E cfg \in Configs : children = <<NewChild(cfg)>>
    /\ readyNotes = 0
    /\ sentinelSegs = 0
    /\ nSends = 0

NextDecode ==
    \/ \E v \in DecodeChunks : StdoutRead(1, v, MaxDecode) /\ UNCHANGED outerVars
    \/ StdoutEOF(1) /\ UNCHANGED outerVars
    \/ ChildExit(1) /\ UNCHANGED outerVars

SpecDecode == InitDecode /\ [][NextDecode]_vars

\* ------------------------------------------------ dispatch specification
\* one child has just been started; its stdout reader gets chunks that hold
\* tagged, plain and blank segments
TagChunks ==
    { "[error] boom", "[error]", "[daemon] restarting\n", "[system] up [system]",
      " [system][daemon] a", "  plain text \n", "x [error] y", "[Error] no" }

BlankChunks ==
    { "  \n", " \t__DONE__\n", "__DONE____DONE__", "a__DONE__ " }

NextTags ==
    \E v \in TagChunks \cup BlankChunks :
        StdoutRead(1, v, MaxTagReads) /\ UNCHANGED outerVars

SpecTags == InitDecode /\ [][NextTags]_vars

\* ---------------------------------------------------------------------
\* The stderr reader
\* ---------------------------------------------------------------------

UPPER == "ABCDEFGHIJKLMNOPQRSTUVWXYZ"
LOWER == "abcdefghijklmnopqrstuvwxyz"

\* one character under a case-insensitive comparison
LowerChar(ch) ==
    LET hits == {i \in 1..Len(UPPER) : SubSeq(UPPER, i, i) = ch}
    IN  IF hits = {} THEN ch ELSE LET i == CHOOSE i \in hits : TRUE IN SubSeq(LOWER, i, i)

RECURSIVE ToLower(_)
ToLower(s) ==
    IF Len(s) = 0 THEN "" ELSE LowerChar(SubSeq(s, 1, 1)) \o ToLower(SubSeq(s, 2, Len(s)))

\* /^\s*LEVEL\s*$/ : nothing but the level name between optional white space
BareLevel(line, level) == Trim(line) = level

\* STDERR_NOISE_PATTERNS.some(p => p.test(line))
isStderrNoise(line) ==
    \/ BareLevel(line, "INFO")
    \/ BareLevel(line, "DEBUG")
    \/ BareLevel(line, "WARNING")
    \/ Includes(line, "DevTools listening on ws:")
    \/ StartsWith(ToLower(TrimStart(line)), "[chromium]")

\* /error|exception|traceback/i.test(trimmed)
IsErrorLineCaseSensitive(trimmed) ==
    \/ Includes(trimmed, "error")
    \/ Includes(trimmed, "exception")
    \/ Includes(trimmed, "traceback")

IsErrorLine(trimmed) ==
    \/ Includes(ToLower(trimmed), "error")
    \/ Includes(ToLower(trimmed), "exception")
    \/ Includes(ToLower(trimmed), "traceback")

\* the messages the loop over chunk.split("\n") adds, in order
RECURSIVE StderrLines(_)
StderrLines(lines) ==
    IF lines = <<>> THEN <<>>
    ELSE LET trimmed == Trim(Head(lines))
         IN  (IF trimmed # "" /\ ~isStderrNoise(trimmed)
              THEN <<Msg(IF IsErrorLine(trimmed) THEN "error" ELSE "agent", trimmed)>>
              ELSE <<>>)
             \o StderrLines(Tail(lines))

OnStderrChunk(value) == StderrLines(Split(Decode(value), "\n"))

\* one iteration of the stderr reader loop of child c
StderrReadAsStdout(c, value) ==
    /\ c \in ChildIds
    /\ Child(c).stdoutPc # "failed"
    /\ Len(Child(c).err) < MaxStderr
    /\ LET st == OnStdoutChunk(ReaderState, value)
       IN  /\ isReadyRef' = st.ready
           /\ isReady' = st.shown
           /\ isTaskRunningRef' = st.running
           /\ messages' = st.msgs
           /\ readyNotes' = st.notes
           /\ sentinelSegs' = st.segs
    /\ children' = [children EXCEPT ![c].err = Append(@, value)]
    /\ UNCHANGED <<daemonRef, nSends>>

StderrRead(c, value) ==
    /\ c \in ChildIds
    /\ Child(c).stdoutPc # "failed"
    /\ Len(Child(c).err) < MaxStderr
    /\ messages' = messages \o OnStderrChunk(value)
    /\ children' = [children EXCEPT ![c].err = Append(@, value)]
    /\ UNCHANGED <<daemonRef, isReadyRef, isReady, isTaskRunningRef,
                   readyNotes, sentinelSegs, nSends>>

NOISE_LINE == "   INFO  "
TRACE_LINE == "Traceback (most recent call last):"

ErrChunks ==
    { NOISE_LINE,
      TRACE_LINE,
      "INFO starting\n\n  [Agent] step 1  \nDEBUG",
      "DevTools listening on ws://x\n [Chromium] gpu\nValueError: bad",
      "an EXCEPTION\r\nWARNING\n",
      "[error] boom__DONE__",
      "Browser started" }

NextStderr == \E v \in ErrChunks : StderrRead(1, v) /\ UNCHANGED outerVars

SpecStderr == InitDecode /\ [][NextStderr]_vars

\* ------------------------------------- the single-file App's stderr reader
\* /^\s*LEVEL\s/ : the level name, after optional white space, followed by
\* a white-space character
LevelThenSpace(line, level) ==
    LET t == TrimStart(line)
    IN  /\ StartsWith(t, level)
        /\ Len(t) > Len(level)
        /\ IsWs(t, Len(level) + 1)

\* the single-file App's own STDERR_NOISE_PATTERNS.some(p => p.test(line))
isStderrNoiseApp(line) ==
    \/ LevelThenSpace(line, "INFO")
    \/ Includes(line, "[BrowserSession]")
    \/ Includes(line, "[SessionManager]")
    \/ Includes(line, "[Browser]")
    \/ Includes(line, "[Agent]")
    \/ Includes(line, "[Controller]")
    \/ Includes(line, "[DOMService]")
    \/ Includes(line, "[NavigationHandler]")
    \/ LevelThenSpace(line, "DEBUG")
    \/ LevelThenSpace(line, "WARNING")

\* the messages its loop over chunk.split("\n") adds, in order
RECURSIVE AppStderrLines(_)
AppStderrLines(lines) ==
    IF lines = <<>> THEN <<>>
    ELSE LET trimmed == Trim(Head(lines))
         IN  (IF trimmed # "" /\ ~isStderrNoiseApp(trimmed)
              THEN <<Msg(IF IsErrorLine(trimmed) THEN "error" ELSE "agent", trimmed)>>
              ELSE <<>>)
             \o AppStderrLines(Tail(lines))

\* one iteration of its stderr reader loop
AppStderrRead(c, value) ==
    /\ c \in ChildIds
    /\ Child(c).stdoutPc # "failed"
    /\ Len(Child(c).err) < MaxStderr
    /\ messages' = messages \o AppStderrLines(Split(Decode(value), "\n"))
    /\ children' = [children EXCEPT ![c].err = Append(@, value)]
    /\ UNCHANGED <<daemonRef, isReadyRef, isReady, isTaskRunningRef,
                   readyNotes, sentinelSegs, nSends>>

\* one-line stderr chunks: boilerplate and narration
BOILERPLATE == { "INFO", "[chromium] gpu" }
NARRATION   == { "INFO starting", "[Agent] step 1", "[Controller] go", "plain" }

NextNoise ==
    \E v \in BOILERPLATE \cup NARRATION : AppStderrRead(1, v) /\ UNCHANGED outerVars

SpecNoise == InitDecode /\ [][NextNoise]_vars

\* stderr chunks read so far, over all children
RECURSIVE ErrChunksRead(_)
ErrChunksRead(ch) ==
    IF ch = <<>> THEN 0 ELSE Len(Head(ch).err) + ErrChunksRead(Tail(ch))

\* ------------------------------------------------ teardown specification
\* the stderr reader of child c sees end-of-data and leaves its loop
StderrEOF(c) ==
    /\ c \in ChildIds
    /\ Child(c).stderrPc = "reading"
    /\ ~Child(c).alive
    /\ children' = [children EXCEPT ![c].stderrPc = "done"]
    /\ UNCHANGED <<daemonRef, isReadyRef, isReady, isTaskRunningRef, messages,
                   readyNotes, sentinelSegs, nSends>>

\* a child whose stdin was closed exits and closes its output pipes
ChildExitOnStdinEnd(c) ==
    /\ c \in ChildIds
    /\ Child(c).stdinEnded
    /\ ChildExit(c)

StopChunks == {"Browser started"}
StopErrChunks == {"warn"}

StopReadsUsed == ChunksRead(children) + ErrChunksRead(children)

\* stop and start at any time, also between two reads of a running loop
NextStop ==
    \/ \E cfg \in Configs : StartDaemon(cfg) /\ UNCHANGED outerVars
    \/ StopDaemon /\ UNCHANGED outerVars
    \/ \E c \in ChildIds, v \in StopChunks :
           /\ StopReadsUsed < MaxStopReads
           /\ StdoutRead(c, v, MaxStopReads) /\ UNCHANGED outerVars
    \/ \E c \in ChildIds, v \in StopErrChunks :
           /\ StopReadsUsed < MaxStopReads
           /\ Child(c).alive /\ Child(c).stderrPc = "reading"
           /\ StderrRead(c, v) /\ UNCHANGED outerVars
    \/ \E c \in 1..MaxChildren : StdoutEOF(c) /\ UNCHANGED outerVars
    \/ \E c \in 1..MaxChildren : StderrEOF(c) /\ UNCHANGED outerVars
    \/ \E c \in 1..MaxChildren : ChildExitOnStdinEnd(c) /\ UNCHANGED outerVars
    \/ \E c \in ChildIds : ChildExit(c) /\ UNCHANGED outerVars

\* the readers' continuations run once their read has settled, and a child
\* with a closed stdin goes away; user calls, output and crashes need not
\* happen
SpecStop ==
    /\ Init
    /\ [][NextStop]_vars
    /\ \A c \in 1..MaxChildren :
          /\ WF_vars(StdoutEOF(c) /\ UNCHANGED outerVars)
          /\ WF_vars(StderrEOF(c) /\ UNCHANGED outerVars)
          /\ WF_vars(ChildExitOnStdinEnd(c) /\ UNCHANGED outerVars)

\* ------------------------------------------------- both readers at work
\* one child has just been started; its stdout reader and its stderr reader
\* run side by side while tasks are sent, and stderr carries text that
\* would be protocol on stdout
ProtocolErrChunks ==
    { "ok__DONE__", "Browser started", "[error] x__DONE__\nBrowser started\n" }

\* sendTask calls and chunks of either stream handled so far
StreamStepsUsed == nSends + ChunksRead(children) + ErrChunksRead(children)

NextStreams ==
    \/ \E p \in Prompts :
           StreamStepsUsed < MaxStreams /\ SendTask(p) /\ UNCHANGED outerVars
    \/ \E v \in LifeChunks :
           /\ StreamStepsUsed < MaxStreams
           /\ StdoutRead(1, v, MaxInputs - nSends) /\ UNCHANGED outerVars
    \/ \E v \in ProtocolErrChunks :
           StreamStepsUsed < MaxStreams /\ StderrRead(1, v) /\ UNCHANGED outerVars

SpecStreams == InitDecode /\ [][NextStreams]_vars


\* ---------------------------------------------------------------------
\* The App component of the CLI
\* ---------------------------------------------------------------------

INTERRUPTED_MSG == "Task interrupted by user"
RESTARTING_MSG  == "Restarting browser with new model..."

\* PROVIDERS[..].name of a provider id
ProviderName(id) ==
    CASE id = "browser-use" -> "Browser Use"
      [] id = "google"      -> "Google Gemini"
      [] id = "openai"      -> "OpenAI"
      [] id = "anthropic"   -> "Anthropic"

\* the model choices offered in the runs: the default and one of Google's
AppConfigs == { DEFAULT_CONFIG, [provider |-> "google", model |-> "gemini-3-flash"] }

\* the prompt argument of the command line: none (daemon mode) or a task
AppPrompts == {"", "x"}

UsingMsg(cfg) ==
    Msg("system", "Using " \o ProviderName(cfg.provider) \o " (" \o cfg.model
                  \o ") - starting browser...")

SwitchedMsg(cfg) ==
    Msg("system", "Switched to " \o ProviderName(cfg.provider) \o " - " \o cfg.model)

\* the state of the App and its hooks at the first render, but for stage
AppFresh ==
    /\ WebAbsent
    /\ appPrompt \in AppPrompts
    /\ daemonStarted = FALSE
    /\ initialPromptSent = FALSE
    /\ loading = FALSE
    /\ config \in AppConfigs
    /\ exited = FALSE
    /\ daemonRef = 0
    /\ isReadyRef = FALSE
    /\ isReady = FALSE
    /\ isTaskRunningRef = FALSE
    /\ messages = <<>>
    /\ children = <<>>
    /\ readyNotes = 0
    /\ sentinelSegs = 0
    /\ nSends = 0

\* the App once the stored configuration has been found complete
InitApp == AppFresh /\ Onboarded

\* the effect that starts the daemon once onboarding is complete
StartEffectAnyStage ==
    /\ ~exited
    /\ UNCHANGED <<webVars, onbVars>>
    /\ ~daemonStarted
    /\ daemonStarted' = TRUE
    /\ StartDaemonFrom(Append(messages, UsingMsg(config)), config)
    /\ UNCHANGED <<appPrompt, initialPromptSent, loading, config, exited>>

StartEffect ==
    /\ ~exited
    /\ UNCHANGED <<webVars, onbVars>>
    /\ stage = "done"
    /\ ~daemonStarted
    /\ daemonStarted' = TRUE
    /\ StartDaemonFrom(Append(messages, UsingMsg(config)), config)
    /\ UNCHANGED <<appPrompt, initialPromptSent, loading, config, exited>>

\* handleSubmit: addMessage("user", ..); setLoading(true); sendTask(..)
HandleSubmitCall(taskPrompt) ==
    /\ loading' = TRUE
    /\ SendTaskFrom(Append(messages, Msg("user", taskPrompt)), taskPrompt)

\* the effect that submits the prompt argument once isReady is true
PromptEffectEveryTime ==
    /\ ~exited
    /\ UNCHANGED <<webVars, onbVars>>
    /\ appPrompt # ""
    /\ isReady
    /\ initialPromptSent' = TRUE
    /\ HandleSubmitCall(appPrompt)
    /\ UNCHANGED <<appPrompt, daemonStarted, config, exited>>

PromptEffect ==
    /\ ~exited
    /\ UNCHANGED <<webVars, onbVars>>
    /\ appPrompt # ""
    /\ isReady
    /\ ~initialPromptSent
    /\ initialPromptSent' = TRUE
    /\ HandleSubmitCall(appPrompt)
    /\ UNCHANGED <<appPrompt, daemonStarted, config, exited>>

\* the user submits a line in ChatInput, which takes text only while not loading
HandleSubmit(taskPrompt) ==
    /\ ~exited
    /\ UNCHANGED <<webVars, onbVars>>
    /\ stage = "done"
    /\ appPrompt = ""
    /\ daemonStarted
    /\ ~loading
    /\ HandleSubmitCall(taskPrompt)
    /\ UNCHANGED <<appPrompt, daemonStarted, initialPromptSent, config, exited>>

\* the user presses Esc in ChatInput while loading
HandleInterrupt ==
    /\ ~exited
    /\ UNCHANGED <<webVars, onbVars>>
    /\ stage = "done"
    /\ appPrompt = ""
    /\ loading
    /\ loading' = FALSE
    /\ messages' = Append(messages, Msg("system", INTERRUPTED_MSG))
    /\ UNCHANGED <<daemonRef, isReadyRef, isReady, isTaskRunningRef, children,
                   readyNotes, sentinelSegs, nSends>>
    /\ UNCHANGED <<appPrompt, daemonStarted, initialPromptSent, config, exited>>

\* the user picks a model in the /model overlay
ApplyModelSwitch(cfg) ==
    /\ ~exited
    /\ UNCHANGED <<webVars, stage, pending, apiKeys>>
    /\ stage = "done"
    /\ appPrompt = ""
    /\ daemonStarted
    /\ ~loading
    /\ config' = cfg
    /\ configFile' = FileOf(cfg, apiKeys)
    /\ StartDaemonFrom(messages \o <<SwitchedMsg(cfg), Msg("system", RESTARTING_MSG)>>, cfg)
    /\ UNCHANGED <<appPrompt, daemonStarted, initialPromptSent, loading, exited>>

\* the user quits (Ctrl+C, q, exit, /quit) or a signal arrives: the component
\* is unmounted, its cleanup calls stopDaemon(), the process exits
ProcessExit ==
    /\ ~exited
    /\ UNCHANGED <<webVars, onbVars>>
    /\ exited' = TRUE
    /\ IF daemonStarted THEN StopDaemon ELSE UNCHANGED hookVars
    /\ UNCHANGED <<appPrompt, daemonStarted, initialPromptSent, loading, config>>

\* the reader tasks and the children, while the process lives
AppStdoutRead(c, value) ==
    ~exited /\ StdoutRead(c, value, MaxInputs - nSends) /\ UNCHANGED outerVars

AppStdoutEOF(c) == ~exited /\ StdoutEOF(c) /\ UNCHANGED outerVars

AppChildExit(c) == ~exited /\ ChildExit(c) /\ UNCHANGED outerVars

\* the steps the user decides
UserNext ==
    \/ \E p \in Prompts : HandleSubmit(p)
    \/ HandleInterrupt
    \/ \E cfg \in AppConfigs : ApplyModelSwitch(cfg)
    \/ ProcessExit

\* the steps the children decide: write a chunk, which the reader handles; exit
ChildNext ==
    \/ \E c \in ChildIds, v \in LifeChunks : AppStdoutRead(c, v)
    \/ \E c \in ChildIds : AppChildExit(c)

\* the steps the program takes by itself: effects after a render, and the
\* reader's continuation once a pipe is at end-of-data
ProgramNext ==
    \/ StartEffect
    \/ PromptEffect
    \/ \E c \in ChildIds : AppStdoutEOF(c)

NextApp == UserNext \/ ChildNext \/ ProgramNext

SpecApp == InitApp /\ [][NextApp]_vars

\* ------------------------------------------------------------ onboarding
\* getActiveProvider(cfg).envKey has a key in cfg.apiKeys
HasActiveKey(file) == file.provider \in file.apiKeys

\* the effect of stage "check": the configuration is loaded again; done when
\* it has a key for its provider, otherwise on to the provider list
CheckEffectAlwaysDone ==
    /\ ~exited
    /\ stage = "check"
    /\ config' = [provider |-> configFile.provider, model |-> configFile.model]
    /\ apiKeys' = configFile.apiKeys
    /\ stage' = "done"
    /\ UNCHANGED <<appPrompt, daemonStarted, initialPromptSent, loading, exited>>
    /\ UNCHANGED <<pending, configFile, hookVars, webVars>>

CheckEffect ==
    /\ ~exited
    /\ stage = "check"
    /\ config' = [provider |-> configFile.provider, model |-> configFile.model]
    /\ apiKeys' = configFile.apiKeys
    /\ stage' = IF HasActiveKey(configFile) THEN "done" ELSE "pick-provider"
    /\ UNCHANGED <<appPrompt, daemonStarted, initialPromptSent, loading, exited>>
    /\ UNCHANGED <<pending, configFile, hookVars, webVars>>

\* the user picks a provider and model in the onboarding list
OnProviderSelect(cfg) ==
    /\ ~exited
    /\ stage = "pick-provider"
    /\ pending' = cfg
    /\ stage' = "enter-key"
    /\ UNCHANGED <<apiKeys, configFile, hookVars, appVars, webVars>>

\* the user submits a non-empty API key for the pending choice: the new
\* configuration is set, written to the file, and the stage is done
OnKeySubmit ==
    /\ ~exited
    /\ stage = "enter-key"
    /\ pending # NoPending
    /\ config' = pending
    /\ apiKeys' = apiKeys \cup {pending.provider}
    /\ configFile' = FileOf(pending, apiKeys \cup {pending.provider})
    /\ pending' = NoPending
    /\ stage' = "done"
    /\ UNCHANGED <<appPrompt, daemonStarted, initialPromptSent, loading, exited>>
    /\ UNCHANGED <<hookVars, webVars>>

\* the user goes back from the key input to the provider list (empty Enter)
OnKeyBack ==
    /\ ~exited
    /\ stage = "enter-key"
    /\ pending # NoPending
    /\ pending' = NoPending
    /\ stage' = "pick-provider"
    /\ UNCHANGED <<apiKeys, configFile, hookVars, appVars, webVars>>

\* the key sets a stored configuration may hold in the runs
StoredKeys == { {}, {"google"} }

\* the App at its first render
InitOnboard ==
    /\ AppFresh
    /\ stage = "check"
    /\ pending = NoPending
    /\ apiKeys \in StoredKeys
    /\ configFile = FileOf(config, apiKeys)

\* onboarding, then the steps of the App with children that print nothing
NextOnboard ==
    \/ CheckEffect
    \/ \E cfg \in AppConfigs : OnProviderSelect(cfg)
    \/ OnKeySubmit
    \/ OnKeyBack
    \/ UserNext
    \/ StartEffect
    \/ \E c \in ChildIds : AppStdoutEOF(c)
    \/ \E c \in ChildIds : AppChildExit(c)

\* the two effects run after the render that scheduled them; the user need
\* not do anything
SpecOnboard ==
    /\ InitOnboard
    /\ [][NextOnboard]_vars
    /\ WF_vars(CheckEffect)
    /\ WF_vars(StartEffect)

\* one-shot mode: the command line carries a prompt, no ChatInput is rendered,
\* the only step left to the user is to end the process
InitOneShot == InitApp /\ appPrompt # ""

NextOneShot == ProcessExit \/ ChildNext \/ ProgramNext

\* effects and continuations are scheduled by the event loop, so a step of
\* the program that stays possible is taken; nothing makes the user act or a
\* child write
SpecOneShot == InitOneShot /\ [][NextOneShot]_vars /\ WF_vars(ProgramNext)


\* ---------------------------------------------------------------------
\* The web server
\* ---------------------------------------------------------------------

SRV_CMD     == "uv run python -u daemon.py"
UNKNOWN_CMD == "Unknown command: "

INVALID_MSG == "Invalid message: "

\* the frames a client sends: a task, a start request, an object of another
\* type, and text that is no JSON
WebInputs ==
    { "{\"type\":\"task\",\"prompt\":\"x\"}",
      "{\"type\":\"start_daemon\"}",
      "{\"type\":\"ping\"}",
      "ping" }

\* the value of a string member of a JSON object, "undefined" if it has none
Member(text, name) ==
    LET parts == Split(text, "\"" \o name \o "\":\"")
    IN  IF Len(parts) < 2 THEN "undefined" ELSE Head(Split(parts[2], "\""))

\* JSON.parse of a frame, for objects with string members: ok is FALSE where
\* it throws
JsonParse(text) ==
    IF StartsWith(text, "{") /\ SubSeq(text, Len(text), Len(text)) = "}"
    THEN [ok |-> TRUE, type |-> Member(text, "type"), prompt |-> Member(text, "prompt")]
    ELSE [ok |-> FALSE, type |-> "undefined", prompt |-> "undefined"]

SrvChunks == { "Browser started", "ok__DONE__" }

SrvErrChunks == { "warn\n" }


Subscribed(c) == \E i \in DOMAIN clients : clients[i] = c

\* what a client holds of what the server sent it: ev is the message, n its
\* position in bcastLog, 0 for a message sent to this client alone
Received(ev, n) == [ev |-> ev, n |-> n]

Tagged(evs, base) == [i \in 1..Len(evs) |-> Received(evs[i], base + i)]

\* client.readyState === WebSocket.OPEN
CanSendAlways(conn) == TRUE

CanSend(conn) == conn.state = "OPEN"

\* the clients the loop of broadcast sends to
RecipientsUntilStale(cs, order) ==
    {order[i] : i \in {k \in DOMAIN order : \A j \in 1..k : CanSend(cs[order[j]])}}

Recipients(cs, order) ==
    {order[i] : i \in {k \in DOMAIN order : CanSend(cs[order[k]])}}

\* the connections after broadcast was called for each of evs in turn
BroadcastAll(cs, order, evs, base) ==
    [c \in DOMAIN cs |->
        IF c \in Recipients(cs, order)
        THEN [cs[c] EXCEPT !.inbox = @ \o Tagged(evs, base)]
        ELSE cs[c]]

\* broadcast(..) for each of evs; the server's own state is set by the caller
Broadcast(evs) ==
    /\ conns' = BroadcastAll(conns, clients, evs, Len(bcastLog))
    /\ bcastLog' = bcastLog \o evs

StatusNow ==
    IF srvReady THEN "ready" ELSE IF srvProcess # 0 THEN "starting" ELSE "disconnected"

\* what websocket.open sends to the new client
OpenReplyWithHistory == Tagged(bcastLog, 0) \o <<Received(Msg("status", StatusNow), 0)>>

OpenReply == <<Received(Msg("status", StatusNow), 0)>>

\* spawns, websocket messages and chunks of the children so far
WebStepsUsed == Len(children) + nMsgs + ChunksRead(children) + ErrChunksRead(children)

InitWeb ==
    /\ AppMounted
    /\ daemonRef = 0
    /\ isReadyRef = FALSE
    /\ isReady = FALSE
    /\ isTaskRunningRef = FALSE
    /\ messages = <<>>
    /\ children = <<>>
    /\ readyNotes = 0
    /\ sentinelSegs = 0
    /\ nSends = 0
    /\ srvProcess = 0
    /\ srvReady = FALSE
    /\ clients = <<>>
    /\ conns = [w \in Sockets |-> NoConn]
    /\ bcastLog = <<>>
    /\ nMsgs = 0
    /\ pendingStarts = 1        \* the call at the end of server.ts
    /\ HookRendered
    /\ hostExited = FALSE

cliVars == <<daemonRef, isReadyRef, isReady, isTaskRunningRef, messages,
             readyNotes, sentinelSegs, nSends, appVars, onbVars, wcVars>>

\* websocket.open
WsOpen(c) ==
    /\ ~hostExited
    /\ conns[c].state = "CONNECTING"
    /\ \A i, j \in DOMAIN SocketOrder :
           (i < j /\ SocketOrder[j] = c) => conns[SocketOrder[i]].state # "CONNECTING"
    /\ conns' = [conns EXCEPT ![c] = [state |-> "OPEN", inbox |-> OpenReply,
                                      joined |-> Len(bcastLog)]]
    /\ clients' = Append(clients, c)
    /\ UNCHANGED <<srvProcess, srvReady, bcastLog, nMsgs, pendingStarts,
                   hostExited, children, cliVars>>

\* the socket of a client stops being open: the peer closes or the link drops
PeerGone(c) ==
    /\ ~hostExited
    /\ conns[c].state = "OPEN"
    /\ conns' = [conns EXCEPT ![c].state = "CLOSED"]
    /\ UNCHANGED <<srvProcess, srvReady, clients, bcastLog, nMsgs, pendingStarts,
                   hostExited, children, cliVars>>

\* websocket.close
WsClose(c) ==
    /\ ~hostExited
    /\ Subscribed(c)
    /\ conns[c].state = "CLOSED"
    /\ clients' = SelectSeq(clients, LAMBDA x : x # c)
    /\ UNCHANGED <<srvProcess, srvReady, conns, bcastLog, nMsgs, pendingStarts,
                   hostExited, children, cliVars>>

\* sendTask of the server
SrvSendTask(prompt) ==
    IF srvProcess = 0 \/ ~srvReady
    THEN /\ Broadcast(<<Msg("error", NOT_READY)>>)
         /\ UNCHANGED children
    ELSE /\ Broadcast(<<Msg("status", "running"),
                        Msg("output", "\n> Task: " \o prompt \o "\n\n")>>)
         /\ children' = [children EXCEPT
                ![srvProcess] = SinkFlush(SinkWrite(@, StdinLine(prompt)))]

\* websocket.message
WsMessageBroadcastsError(c, message) ==
    /\ ~hostExited
    /\ Subscribed(c)
    /\ conns[c].state = "OPEN"
    /\ WebStepsUsed < MaxWebSteps
    /\ nMsgs' = nMsgs + 1
    /\ LET data == JsonParse(message)
       IN  CASE ~data.ok ->
                  /\ conns' = [conns EXCEPT ![c].inbox =
                         Append(@, Received(Msg("error", INVALID_MSG \o "SyntaxError"), 0))]
                  /\ UNCHANGED <<bcastLog, children, pendingStarts>>
             [] data.ok /\ data.type = "task" ->
                  /\ SrvSendTask(data.prompt)
                  /\ UNCHANGED pendingStarts
             [] data.ok /\ data.type = "start_daemon" ->
                  /\ pendingStarts' = IF srvProcess # 0 THEN pendingStarts
                                      ELSE pendingStarts + 1
                  /\ UNCHANGED <<conns, bcastLog, children>>
             [] OTHER ->
                  /\ Broadcast(<<Msg("error", UNKNOWN_CMD \o data.type)>>)
                  /\ UNCHANGED <<children, pendingStarts>>
    /\ UNCHANGED <<srvProcess, srvReady, clients, hostExited, cliVars>>

WsMessage(c, message) ==
    /\ ~hostExited
    /\ Subscribed(c)
    /\ conns[c].state = "OPEN"
    /\ WebStepsUsed < MaxWebSteps
    /\ nMsgs' = nMsgs + 1
    /\ LET data == JsonParse(message)
       IN  CASE ~data.ok ->
                  /\ conns' = [conns EXCEPT ![c].inbox =
                         Append(@, Received(Msg("error", INVALID_MSG \o "SyntaxError"), 0))]
                  /\ UNCHANGED <<bcastLog, children, pendingStarts>>
             [] data.ok /\ data.type = "task" ->
                  /\ SrvSendTask(data.prompt)
                  /\ UNCHANGED pendingStarts
             [] data.ok /\ data.type = "start_daemon" ->
                  /\ pendingStarts' = IF srvProcess # 0 THEN pendingStarts
                                      ELSE pendingStarts + 1
                  /\ UNCHANGED <<conns, bcastLog, children>>
             [] OTHER ->
                  /\ conns' = [conns EXCEPT ![c].inbox =
                         Append(@, Received(Msg("error", UNKNOWN_CMD \o data.type), 0))]
                  /\ UNCHANGED <<bcastLog, children, pendingStarts>>
    /\ UNCHANGED <<srvProcess, srvReady, clients, hostExited, cliVars>>

\* startDaemon after ensureDependencies has returned: spawn, start the readers
SrvSpawn ==
    /\ ~hostExited
    /\ pendingStarts > 0
    /\ WebStepsUsed < MaxWebSteps
    /\ pendingStarts' = pendingStarts - 1
    /\ children' = Append(children, NewChild(SRV_CMD))
    /\ srvProcess' = Len(children) + 1
    /\ UNCHANGED <<srvReady, clients, conns, bcastLog, nMsgs, hostExited, cliVars>>

\* ensureDependencies finds no environment and no Python: process.exit(1)
SrvNoPython ==
    /\ ~hostExited
    /\ pendingStarts > 0
    /\ hostExited' = TRUE
    /\ UNCHANGED <<srvProcess, srvReady, clients, conns, bcastLog, nMsgs,
                   pendingStarts, children, cliVars>>

\* the events of one chunk of stdout, and the readiness flag after it
RECURSIVE SrvParts(_, _)
SrvParts(ready, parts) ==
    IF parts = <<>> THEN [ready |-> ready, evs |-> <<>>]
    ELSE LET text  == Head(parts)
             latch == ~ready /\ Includes(text, SENTINEL)
             rest  == SrvParts(ready \/ latch, Tail(parts))
         IN  [ready |-> rest.ready,
              evs   |-> (IF latch THEN <<Msg("status", "ready")>> ELSE <<>>)
                        \o (IF HasText(Trim(text)) THEN <<Msg("output", text)>> ELSE <<>>)
                        \o (IF Len(parts) > 1 THEN <<Msg("done", "")>> ELSE <<>>)
                        \o rest.evs]

\* one iteration of the stdout reader loop of child c
SrvStdoutRead(c, value) ==
    /\ ~hostExited
    /\ c \in ChildIds
    /\ Child(c).stdoutPc = "reading"
    /\ Child(c).alive
    /\ WebStepsUsed < MaxWebSteps
    /\ LET r == SrvParts(srvReady, Split(Decode(value), DONE_MARKER))
       IN  /\ srvReady' = r.ready
           /\ Broadcast(r.evs)
    /\ children' = [children EXCEPT ![c].out = Append(@, value)]
    /\ UNCHANGED <<srvProcess, clients, nMsgs, pendingStarts, hostExited, cliVars>>

\* the stdout reader of child c sees end-of-data
SrvStdoutEOF(c) ==
    /\ ~hostExited
    /\ c \in ChildIds
    /\ Child(c).stdoutPc = "reading"
    /\ ~Child(c).alive
    /\ srvProcess' = 0
    /\ srvReady' = FALSE
    /\ Broadcast(<<Msg("status", "disconnected")>>)
    /\ children' = [children EXCEPT ![c].stdoutPc = "done"]
    /\ UNCHANGED <<clients, nMsgs, pendingStarts, hostExited, cliVars>>

\* one iteration of the stderr reader loop of child c
SrvStderrRead(c, value) ==
    /\ ~hostExited
    /\ c \in ChildIds
    /\ WebStepsUsed < MaxWebSteps
    /\ Broadcast(IF Trim(Decode(value)) # ""
                 THEN <<Msg("error", Decode(value))>> ELSE <<>>)
    /\ children' = [children EXCEPT ![c].err = Append(@, value)]
    /\ UNCHANGED <<srvProcess, srvReady, clients, nMsgs, pendingStarts,
                   hostExited, cliVars>>

SrvChildExit(c) == ~hostExited /\ ChildExit(c) /\ UNCHANGED outerVars

NextWeb ==
    \/ \E c \in Sockets : WsOpen(c)
    \/ \E c \in Sockets : PeerGone(c)
    \/ \E c \in Sockets : WsClose(c)
    \/ \E c \in Sockets, data \in WebInputs : WsMessage(c, data)
    \/ SrvSpawn
    \/ SrvNoPython
    \/ \E c \in ChildIds, v \in SrvChunks : SrvStdoutRead(c, v)
    \/ \E c \in ChildIds : SrvStdoutEOF(c)
    \/ \E c \in ChildIds, v \in SrvErrChunks : SrvStderrRead(c, v)
    \/ \E c \in ChildIds : SrvChildExit(c)

SpecWeb == InitWeb /\ [][NextWeb]_vars


\* ------------------------------------------- the web client: useWebSocket
NOTE_CONNECTED == "Connected to server"
NOTE_READY     == "Browser agent ready"
NOTE_STARTING  == "Starting browser daemon..."
NOTE_GONE      == "Daemon disconnected"
NOTE_DONE      == "Task completed"
NOTE_RETRY     == "Connection error"

\* an entry of the hook's message list; n is the number of the server
\* message it was made from, 0 for an entry the hook made by itself
Entry(type, text, n) == [type |-> type, text |-> text, n |-> n]

STATUS_NAMES == {"disconnected", "starting", "ready", "running"}

\* ws.onmessage of the web client, as far as it sets the status
OnStatusMessage(cur, ev) ==
    CASE ev.type = "status" -> ev.text
      [] ev.type = "done"   -> "ready"
      [] OTHER              -> cur

\* what the server sends to the page
PageEvents ==
    { Msg("status", "ready"), Msg("status", "running"),
      Msg("output", "ok"), Msg("done", "") }

SocketIds == DOMAIN webSockets

\* the sockets whose connection is being made or is made
Connected == {i \in SocketIds : webSockets[i] \in {"CONNECTING", "OPEN"}}

\* connect(): webSockets and wsRef after the call
ConnectCall ==
    IF wsRef # 0 /\ webSockets[wsRef] = "OPEN"
    THEN UNCHANGED <<webSockets, wsRef>>
    ELSE /\ webSockets' = Append(webSockets, "CONNECTING")
         /\ wsRef' = Len(webSockets) + 1

\* whether connect() may still create a socket within the bound
MayConnect == (wsRef # 0 /\ webSockets[wsRef] = "OPEN") \/ Len(webSockets) < MaxSockets

\* useEffect: connect() when the hook is mounted
MountEffect ==
    /\ effect = "pending"
    /\ effect' = "run"
    /\ ConnectCall
    /\ UNCHANGED <<timeouts, reconnectTimer, isConnected, status, isTaskRunning,
                   webMessages, nEvents>>

\* the Retry button of the App, shown while isConnected is false
Retry ==
    /\ effect = "run"
    /\ ~isConnected
    /\ MayConnect
    /\ ConnectCall
    /\ UNCHANGED <<effect, timeouts, reconnectTimer, isConnected, status,
                   isTaskRunning, webMessages, nEvents>>

\* a timer set by onclose runs out: connect()
TimerFires(t) ==
    /\ t \in DOMAIN timeouts
    /\ timeouts[t] = "armed"
    /\ MayConnect
    /\ timeouts' = [timeouts EXCEPT ![t] = "fired"]
    /\ ConnectCall
    /\ UNCHANGED <<effect, reconnectTimer, isConnected, status, isTaskRunning,
                   webMessages, nEvents>>

\* ws.onopen of socket i
OnOpen(i) ==
    /\ i \in SocketIds
    /\ webSockets[i] = "CONNECTING"
    /\ webSockets' = [webSockets EXCEPT ![i] = "OPEN"]
    /\ isConnected' = TRUE
    /\ webMessages' = Append(webMessages, Entry("system", NOTE_CONNECTED, 0))
    /\ UNCHANGED <<effect, wsRef, timeouts, reconnectTimer, status, isTaskRunning,
                   nEvents>>

\* the connection of socket i ends, by the network, the server or close():
\* ws.onerror when it was never made, then ws.onclose
OnClose(i) ==
    /\ i \in SocketIds
    /\ webSockets[i] # "CLOSED"
    /\ webSockets' = [webSockets EXCEPT ![i] = "CLOSED"]
    /\ webMessages' = IF webSockets[i] = "CONNECTING"
                      THEN Append(webMessages, Entry("error", NOTE_RETRY, 0))
                      ELSE webMessages
    /\ isConnected' = FALSE
    /\ status' = "disconnected"
    /\ timeouts' = Append(timeouts, "armed")
    /\ reconnectTimer' = Len(timeouts) + 1
    /\ UNCHANGED <<effect, wsRef, isTaskRunning, nEvents>>

\* the entries ws.onmessage adds for a message of the server
EntriesOf(ev, n) ==
    CASE ev.type = "status" /\ ev.text = "ready" -> <<Entry("system", NOTE_READY, n)>>
      [] ev.type = "status" /\ ev.text = "starting" -> <<Entry("system", NOTE_STARTING, n)>>
      [] ev.type = "status" /\ ev.text = "disconnected" -> <<Entry("system", NOTE_GONE, n)>>
      [] ev.type \in {"output", "error"} /\ HasText(Trim(ev.text)) -> <<Entry(ev.type, ev.text, n)>>
      [] ev.type = "done" -> <<Entry("done", NOTE_DONE, n)>>
      [] OTHER -> <<>>

\* isTaskRunning after ws.onmessage
RunningAfter(cur, ev) ==
    CASE ev.type = "status" /\ ev.text = "running" -> TRUE
      [] ev.type = "status" /\ ev.text \in {"ready", "disconnected"} -> FALSE
      [] ev.type = "done" -> FALSE
      [] OTHER -> cur

\* the entries added when each of the given number of sockets handles ev
RECURSIVE EntriesTimes(_, _, _)
EntriesTimes(k, ev, n) ==
    IF k = 0 THEN <<>> ELSE EntriesOf(ev, n) \o EntriesTimes(k - 1, ev, n)

\* the server sends a message to the page: ws.onmessage of every open socket
OnMessage(ev) ==
    /\ nEvents < MaxEvents
    /\ \E i \in SocketIds : webSockets[i] = "OPEN"
    /\ nEvents' = nEvents + 1
    /\ status' = OnStatusMessage(status, ev)
    /\ isTaskRunning' = RunningAfter(isTaskRunning, ev)
    /\ webMessages' = webMessages
           \o EntriesTimes(Cardinality({i \in SocketIds : webSockets[i] = "OPEN"}),
                           ev, nEvents + 1)
    /\ UNCHANGED <<effect, webSockets, wsRef, timeouts, reconnectTimer, isConnected>>

\* sendTask of the hook, from the input bar
WebSendTask ==
    /\ effect = "run"
    /\ isConnected /\ ~isTaskRunning /\ status # "disconnected"
    /\ wsRef # 0 /\ webSockets[wsRef] = "OPEN"
    /\ isTaskRunning' = TRUE
    /\ UNCHANGED <<effect, webSockets, wsRef, timeouts, reconnectTimer, isConnected,
                   status, webMessages, nEvents>>

\* the cleanup of the effect, at unmount: disconnect()
Disconnect ==
    /\ effect = "run"
    /\ effect' = "cleaned"
    /\ timeouts' = IF reconnectTimer # 0 /\ timeouts[reconnectTimer] = "armed"
                   THEN [timeouts EXCEPT ![reconnectTimer] = "cleared"]
                   ELSE timeouts
    /\ webSockets' = IF wsRef # 0 /\ webSockets[wsRef] \in {"CONNECTING", "OPEN"}
                     THEN [webSockets EXCEPT ![wsRef] = "CLOSING"]
                     ELSE webSockets
    /\ wsRef' = 0
    /\ UNCHANGED <<reconnectTimer, isConnected, status, isTaskRunning, webMessages,
                   nEvents>>

notPage == <<hookVars, appVars, onbVars, srvVars>>

NextClient ==
    \/ MountEffect /\ UNCHANGED notPage
    \/ Retry /\ UNCHANGED notPage
    \/ \E t \in 1..MaxSockets : TimerFires(t) /\ UNCHANGED notPage
    \/ \E i \in 1..MaxSockets : OnOpen(i) /\ UNCHANGED notPage
    \/ \E i \in 1..MaxSockets : OnClose(i) /\ UNCHANGED notPage
    \/ \E ev \in PageEvents : OnMessage(ev) /\ UNCHANGED notPage
    \/ WebSendTask /\ UNCHANGED notPage
    \/ Disconnect /\ UNCHANGED notPage

SpecClient == InitWeb /\ [][NextClient]_vars


\* ---------------------------------- the two supervisors on the same stdout
\* stdout chunks that put the sentinel and the marker at every place of a chunk
AgreeChunks ==
    { "Browser started", "ok__DONE__", "a__DONE__Browser started__DONE__b",
      "Browser started__DONE__Browser started", "[error] boom\n", "  \n",
      "__DONE__", "__DO" }

\* a child has just been started by useDaemon and, with the same output, by
\* the server; only the stdout readers run
InitAgree ==
    /\ AppMounted
    /\ HookRendered
    /\ daemonRef = 1
    /\ isReadyRef = FALSE
    /\ isReady = FALSE
    /\ isTaskRunningRef = FALSE
    /\ messages = <<>>
    /\ \E cfg \in Configs : children = <<NewChild(cfg)>>
    /\ readyNotes = 0
    /\ sentinelSegs = 0
    /\ nSends = 0
    /\ srvProcess = 1
    /\ srvReady = FALSE
    /\ clients = <<>>
    /\ conns = [w \in Sockets |-> NoConn]
    /\ bcastLog = <<>>
    /\ nMsgs = 0
    /\ pendingStarts = 0
    /\ hostExited = FALSE

\* both stdout reader loops handle the same chunk of the child
BothRead(value) ==
    /\ StdoutRead(1, value, MaxAgree)
    /\ LET r == SrvParts(srvReady, Split(Decode(value), DONE_MARKER))
       IN  /\ srvReady' = r.ready
           /\ Broadcast(r.evs)
    /\ UNCHANGED <<srvProcess, clients, nMsgs, pendingStarts, hostExited>>
    /\ UNCHANGED <<appVars, onbVars, wcVars>>

NextAgree == \E v \in AgreeChunks : BothRead(v)

SpecAgree == InitAgree /\ [][NextAgree]_vars


\* ------------------------------------------------------- supervisor states
\* the four states of the supervisor, read off the handle and the two flags
SupState ==
    IF daemonRef = 0 THEN "Disconnected"
    ELSE IF ~isReadyRef THEN "Starting"
    ELSE IF isTaskRunningRef THEN "Running"
    ELSE "Ready"

Rejected == messages' = Append(messages, Msg("error", NOT_READY))

DoneCount == Cardinality({i \in DOMAIN messages : messages[i].type = "done"})

\* the reader state at the start of a stream
FreshReader ==
    [ ready |-> FALSE, shown |-> FALSE, running |-> FALSE,
      msgs |-> <<>>, notes |-> 0, segs |-> 0 ]

\* ------------------------------------------------------------------ claims

\* C1: in every state other than Ready (Disconnected, Starting, Running) a
\* sendTask call leaves the readiness flag, the task-running flag and the
\* child handle unchanged, writes nothing to any stdin and appends exactly
\* one error message.
C1_SendOutsideReadyRejected ==
    [][(nSends' = nSends + 1 /\ SupState # "Ready")
        => /\ isReadyRef' = isReadyRef
           /\ isTaskRunningRef' = isTaskRunningRef
           /\ daemonRef' = daemonRef
           /\ children' = children
           /\ Rejected]_vars

\* C2: at most one task is in flight: a sendTask call made while a task is
\* running (no completion marker seen since the last accepted send) is
\* rejected with an error message, writes nothing to the child's stdin and
\* leaves the pending task as it was.
C2_SecondSendRejected ==
    [][(nSends' = nSends + 1 /\ daemonRef # 0 /\ isTaskRunningRef
          /\ Len(Child(daemonRef).stdin) > 0)
        => /\ Len(children'[daemonRef].stdin) = Len(Child(daemonRef).stdin)
           /\ isTaskRunningRef'
           /\ Rejected]_vars

\* C3: chunk-boundary invariance: the messages emitted and the readiness
\* reached after reading a stream in chunks are those of reading the same
\* stream as one chunk.
C3_ChunkBoundaryInvariance ==
    (Child(1).stdoutPc = "reading" /\ Child(1).out # <<>>)
        => LET whole == OnStdoutChunk(FreshReader, Concat(Child(1).out))
           IN  /\ messages = whole.msgs
               /\ isReadyRef = whole.ready

\* C4: the number of "done" messages equals the number of occurrences of the
\* completion marker in the raw stream read so far, whatever the chunking.
C4_DonePerMarker ==
    DoneCount = Occurrences(Concat(Child(1).out), DONE_MARKER)

\* C5: within one session (from a spawn to the next stopDaemon) readiness goes
\* from false to true exactly once however many stdout segments carry the
\* sentinel: setIsReady(true) has been called once if a sentinel segment was
\* seen and not at all otherwise, and the flag is set exactly when it was.
C5_ReadyLatchedOnce ==
    /\ readyNotes = (IF sentinelSegs > 0 THEN 1 ELSE 0)
    /\ isReadyRef = (readyNotes = 1)
    /\ isReady = isReadyRef

\* C5 witness: a second sentinel segment arrived in a session that was
\* already latched.
C5_Witness ==
    /\ daemonRef # 0
    /\ sentinelSegs >= 2
    /\ readyNotes = 1
    /\ isReadyRef

\* C6: serialized restart: at most one child process is alive in every
\* reachable state.
C6_OneLiveChild ==
    Cardinality({c \in ChildIds : Child(c).alive}) <= 1

\* C7: once a new child has been spawned, a step of an old child's stdout
\* reader (a chunk or end-of-data) delivers no message and changes neither
\* the readiness flag nor the task-running flag.
C7_NoOldChildOutput ==
    [][\A c \in ChildIds :
         (/\ daemonRef # 0
          /\ c # daemonRef
          /\ \/ children'[c].out # Child(c).out
             \/ children'[c].stdoutPc # Child(c).stdoutPc)
         => /\ messages' = messages
            /\ isReadyRef' = isReadyRef
            /\ isTaskRunningRef' = isTaskRunningRef]_vars

\* C8: the scenario stream, read as one chunk, decodes to agent "hello",
\* done, error "boom", system "restarting", done, agent "world".
C8_ScenarioDecoding ==
    (Child(1).stdoutPc = "reading" /\ Child(1).out = <<SCENARIO>>)
        => messages = << Msg("agent", "hello"),
                         Msg("done", DONE_TEXT),
                         Msg("error", "boom"),
                         Msg("system", "restarting"),
                         Msg("done", DONE_TEXT),
                         Msg("agent", "world") >>

\* C9: when the stdout of the current child reaches end-of-data the reader
\* appends a final system message, and the readiness flag and the child
\* handle are cleared (so that later sends are rejected).
C9_EofDisconnects ==
    [][\A c \in ChildIds :
         (daemonRef = c /\ Child(c).stdoutPc = "reading"
            /\ children'[c].stdoutPc = "done")
         => /\ messages' = Append(messages, Msg("system", STOPPED_MSG))
            /\ daemonRef' = 0
            /\ ~isReadyRef'
            /\ ~isReady']_vars

\* C10: stopDaemon called in any state closes the stdin of the current child,
\* clears the handle and leaves readiness false and no task marked running.
C10_StopResets ==
    [][StopDaemon
        => /\ daemonRef' = 0
           /\ ~isReadyRef'
           /\ ~isReady'
           /\ ~isTaskRunningRef'
           /\ (daemonRef # 0 => children'[daemonRef].stdinEnded)]_vars

\* C11: when spawning the child fails the failure is reported as a system or
\* error message, and the supervisor is left Disconnected: no handle and
\* readiness false.
C11_SpawnFailureReported ==
    [][(Len(children') = Len(children) + 1
          /\ children'[Len(children')].stdoutPc = "failed")
        => /\ Len(messages') = Len(messages) + 1
           /\ messages'[Len(messages')].type \in {"system", "error"}
           /\ daemonRef' = 0
           /\ ~isReadyRef'
           /\ ~isReady']_vars

\* C15: every stderr chunk is split on newlines and every line trimmed; an
\* empty line or a noise line adds no message; any other line adds exactly
\* one message holding the trimmed line, of type error when it contains
\* error, exception or traceback in any letter case, of type agent otherwise.
C15_StderrClassification ==
    LET Expected(chunk) ==
            CASE chunk = NOISE_LINE -> <<>>
              [] chunk = TRACE_LINE -> <<Msg("error", TRACE_LINE)>>
              [] chunk = "INFO starting\n\n  [Agent] step 1  \nDEBUG"
                   -> <<Msg("agent", "INFO starting"), Msg("agent", "[Agent] step 1")>>
              [] chunk = "DevTools listening on ws://x\n [Chromium] gpu\nValueError: bad"
                   -> <<Msg("error", "ValueError: bad")>>
              [] chunk = "an EXCEPTION\r\nWARNING\n"
                   -> <<Msg("error", "an EXCEPTION")>>
              [] chunk = "[error] boom__DONE__"
                   -> <<Msg("error", "[error] boom__DONE__")>>
              [] chunk = "Browser started"
                   -> <<Msg("agent", "Browser started")>>
        ExpectedAll[n \in 0..Len(Child(1).err)] ==
            IF n = 0 THEN <<>> ELSE ExpectedAll[n - 1] \o Expected(Child(1).err[n])
    IN  Child(1).out = <<>> /\ Child(1).stdoutPc = "reading"
            => messages = ExpectedAll[Len(Child(1).err)]

C15_Witness ==
    /\ \E i \in DOMAIN Child(1).err : Child(1).err[i] = NOISE_LINE
    /\ \E i \in DOMAIN Child(1).err : Child(1).err[i] = TRACE_LINE
    /\ \E i \in DOMAIN messages : messages[i] = Msg("agent", "[Agent] step 1")

\* C16: a send that is rejected because the daemon is not ready changes no
\* state that blocks a later submission: the loading flag is not left set.
C16_RejectedSendLeavesInputOpen ==
    [][(nSends' = nSends + 1
          /\ Len(messages') > 0
          /\ messages'[Len(messages')] = Msg("error", NOT_READY))
        => ~loading']_vars

\* C18: after Esc interrupts a running task no task is marked as running.
C18_InterruptClearsRunning ==
    [][HandleInterrupt => ~isTaskRunningRef']_vars

\* C19: in one-shot mode, once the prompt was submitted and its completion
\* marker was observed, the program eventually exits.
C19_OneShotExits ==
    (/\ appPrompt # ""
     /\ initialPromptSent
     /\ \E i, j \in DOMAIN messages :
            /\ i < j
            /\ messages[i] = Msg("user", appPrompt)
            /\ messages[j].type = "done")
        ~> exited

\* C20: after a model switch the handle is a child spawned with the selected
\* provider and model, every earlier child has its stdin closed, and
\* readiness is false until that child has emitted the sentinel.
C20_SwitchRestarts ==
    (Len(children) >= 2 /\ daemonRef = Len(children)) =>
        /\ Child(daemonRef).args = config
        /\ \A c \in 1..(daemonRef - 1) : Child(c).stdinEnded
        /\ isReadyRef => \E i \in DOMAIN Child(daemonRef).out :
                             Includes(Child(daemonRef).out[i], SENTINEL)

\* the broadcast events a client holds, without the messages sent to it alone
Broadcasts(c) == SelectSeq(conns[c].inbox, LAMBDA r : r.n > 0)

\* an open client holds every event broadcast since it connected, once, in
\* the order of the broadcast calls
InBroadcastOrder ==
    \A c \in Sockets :
        conns[c].state = "OPEN" =>
            Broadcasts(c) = [i \in 1..(Len(bcastLog) - conns[c].joined) |->
                                Received(bcastLog[conns[c].joined + i],
                                         conns[c].joined + i)]

\* C12 as stated: every open client gets every event in broadcast order, and a
\* broadcast that meets a client it cannot reach removes that client from
\* the subscriber set.
C12_BroadcastDropsUnreachable ==
    /\ []InBroadcastOrder
    /\ [][bcastLog' # bcastLog =>
            \A c \in Sockets :
                (Subscribed(c) /\ ~CanSend(conns[c]))
                    => \A i \in DOMAIN clients' : clients'[i] # c]_vars

\* C12 amended: every open client gets every event in broadcast order; a
\* client whose socket is not open is skipped without stopping the delivery
\* to the others, and broadcast leaves the subscriber set as it is.
C12_BroadcastSkipsUnreachable ==
    /\ []InBroadcastOrder
    /\ [][bcastLog' # bcastLog => clients' = clients]_vars

C12_Witness ==
    \E a, b \in Sockets :
        /\ clients = <<a, b>>
        /\ conns[a].state = "CLOSED"
        /\ conns[b].state = "OPEN"
        /\ \E i \in DOMAIN conns[b].inbox :
               /\ conns[b].inbox[i].n > 0
               /\ \A j \in DOMAIN conns[a].inbox :
                      conns[a].inbox[j].n # conns[b].inbox[i].n

\* C13: whatever the order of close events and broadcasts, a client whose
\* socket has closed receives nothing more, subscribed or not: broadcast
\* sends only on open sockets.
C13_ClosedClientGetsNothing ==
    [][\A c \in Sockets :
          conns[c].state = "CLOSED" => conns'[c].inbox = conns[c].inbox]_vars

C13_Witness ==
    \E c \in Sockets :
        /\ conns[c].state = "CLOSED"
        /\ Subscribed(c)
        /\ Len(bcastLog) > conns[c].joined + Len(Broadcasts(c))

\* C14: a client never receives an event broadcast before it connected; the
\* first message it gets is the status at connection time, sent to it alone.
C14_NoReplay ==
    \A c \in Sockets :
        conns[c].state # "CONNECTING" =>
            /\ Len(conns[c].inbox) >= 1
            /\ conns[c].inbox[1].n = 0
            /\ conns[c].inbox[1].ev.type = "status"
            /\ \A i \in DOMAIN conns[c].inbox :
                   conns[c].inbox[i].n = 0 \/ conns[c].inbox[i].n > conns[c].joined

C14_Witness ==
    \E c \in Sockets :
        /\ conns[c].state = "OPEN"
        /\ conns[c].joined > 0
        /\ Len(Broadcasts(c)) > 0

\* C17: no operation of the supervisor reaches a process exit.
C17_NoProcessExit == ~hostExited

\* C21: a sendTask call in state Ready writes exactly the task text followed
\* by one newline to the stdin of the current child, leaves nothing
\* unflushed in the sink, sets the task-running flag (Ready -> Running) and
\* adds no message.
C21_SendWritesLineAndRuns ==
    [][(nSends' = nSends + 1 /\ SupState = "Ready")
        => /\ \E p \in Prompts :
                 children' = [children EXCEPT
                     ![daemonRef].stdin = Append(@, p \o "\n")]
           /\ children'[daemonRef].stdinBuf = ""
           /\ isTaskRunningRef'
           /\ SupState' = "Running"
           /\ messages' = messages]_vars

C21_Witness ==
    /\ SupState = "Running"
    /\ Child(daemonRef).stdin = <<"x\n">>
    /\ Child(daemonRef).stdinBuf = ""

\* the chunk that a stdout reader handed over in this step, "" if none did
ChunkRead ==
    LET rs == {c \in ChildIds : Len(children'[c].out) = Len(children[c].out) + 1}
    IN  IF rs = {} THEN ""
        ELSE LET c == CHOOSE c \in rs : TRUE
             IN  children'[c].out[Len(children'[c].out)]

\* C22 (as stated): a "done" message is emitted only by a step taken while
\* the task-running flag is set.
C22_DoneOnlyWhileRunning ==
    [][DoneCount' > DoneCount => isTaskRunningRef]_vars

\* C22 (amended): every completion marker in a chunk handed to the stdout
\* reader emits one "done" message and leaves the task-running flag clear,
\* whether or not a task was running; when one was running the supervisor is
\* back in Ready after the step, and no other step emits "done".
C22_MarkerEndsTask ==
    [][LET n == Occurrences(ChunkRead, DONE_MARKER)
       IN  /\ DoneCount' = DoneCount + n
           /\ n > 0 => ~isTaskRunningRef'
           /\ (n > 0 /\ SupState = "Running") => SupState' = "Ready"]_vars

\* a task was sent to the ready child and its marker was read while it ran
C22_Witness ==
    /\ daemonRef # 0
    /\ DoneCount = 1
    /\ Child(daemonRef).out = <<"Browser started", "ok__DONE__">>
    /\ Child(daemonRef).stdin = <<"x\n">>
    /\ SupState = "Ready"

\* C23: the stdout segment that latches readiness only triggers the
\* transition to ready: the step that sets the server's readiness flag
\* broadcasts no output event carrying the sentinel.
C23_SentinelSegmentNotEmitted ==
    [][(~srvReady /\ srvReady')
        => \A i \in (Len(bcastLog) + 1)..Len(bcastLog') :
               ~(/\ bcastLog'[i].type = "output"
                 /\ Includes(bcastLog'[i].text, SENTINEL))]_vars

\* C24: a stdout segment that is not blank and does not carry the sentinel
\* adds exactly one message: type error with the tag stripped when it starts
\* with [error], type system with the tag stripped when it starts with
\* [daemon] or [system], and type agent with the trimmed text otherwise.
C24_TagDispatch ==
    [][LET v == ChunkRead
           expected ==
               CASE v = "[error] boom"          -> Msg("error", "boom")
                 [] v = "[error]"               -> Msg("error", "")
                 [] v = "[daemon] restarting\n" -> Msg("system", "restarting")
                 [] v = "[system] up [system]"  -> Msg("system", "up [system]")
                 [] v = " [system][daemon] a"   -> Msg("system", "[daemon] a")
                 [] v = "  plain text \n"       -> Msg("agent", "plain text")
                 [] v = "x [error] y"           -> Msg("agent", "x [error] y")
                 [] v = "[Error] no"            -> Msg("agent", "[Error] no")
                 [] OTHER                       -> Msg("none", "")
       IN  v \in TagChunks => messages' = Append(messages, expected)]_vars

\* a tagged segment of each kind and a plain one were dispatched
C24_Witness ==
    /\ Child(1).out = <<"[system] up [system]", "[error] boom">>
    /\ Len(messages) = 2

\* C25: an empty or white-space-only stdout segment adds no message, while
\* each marker next to it still adds its "done" message.
C25_BlankSegmentSilent ==
    [][LET v == ChunkRead
           done == Msg("done", DONE_TEXT)
           expected ==
               CASE v = "  \n"              -> <<>>
                 [] v = " \t__DONE__\n"     -> <<done>>
                 [] v = "__DONE____DONE__"  -> <<done, done>>
                 [] v = "a__DONE__ "        -> <<Msg("agent", "a"), done>>
                 [] OTHER                   -> <<>>
       IN  v \in BlankChunks => messages' = messages \o expected]_vars

\* blank segments on both sides of a marker were read, and a blank chunk
C25_Witness ==
    /\ Child(1).out = <<" \t__DONE__\n", "  \n">>
    /\ messages = <<Msg("done", DONE_TEXT)>>

\* C26: a step of the stderr reader, whatever its chunk holds, adds no
\* "done" message and leaves the task-running flag and both readiness flags
\* as they were.
C26_StderrOutsideProtocol ==
    [][(\E c \in ChildIds : children'[c].err # children[c].err)
        => /\ DoneCount' = DoneCount
           /\ isTaskRunningRef' = isTaskRunningRef
           /\ isReadyRef' = isReadyRef
           /\ isReady' = isReady]_vars

\* the sentinel came on stderr before readiness and a marker came on stderr
\* while the task was running
C26_Witness ==
    /\ Child(1).err = <<"Browser started", "ok__DONE__">>
    /\ Child(1).out = <<"Browser started">>
    /\ Child(1).stdin = <<"x\n">>
    /\ messages = <<Msg("agent", "Browser started"), Msg("agent", "ok__DONE__")>>
    /\ SupState = "Running"

\* a line of stderr was shown to the user as a message
Surfaced(line) == \E i \in DOMAIN messages : messages[i].text = Trim(line)

\* C27: the noise classifier drops a stderr line only when it is
\* zero-information boilerplate (a bare log level, a DevTools or [chromium]
\* line), and never a line of narration ([Agent], [Controller], a log level
\* followed by text): of the lines read, exactly the narration is surfaced.
C27_NoiseOnlyBoilerplate ==
    \A i \in DOMAIN Child(1).err :
        Surfaced(Child(1).err[i]) <=> Child(1).err[i] \in NARRATION

\* both reader loops of child c have left their loops
ReadersDone(c) ==
    /\ c \in ChildIds
    /\ Child(c).stdoutPc = "done"
    /\ Child(c).stderrPc = "done"

\* child c was spawned and the hook has dropped its handle (stopDaemon ran
\* on it, directly or at the start of the next startDaemon)
Stopped(c) == c \in ChildIds /\ daemonRef # c

\* C28: once stopDaemon has run on a child, at whatever point of its
\* readers' loops, both the stdout reader and the stderr reader of that
\* child eventually see end-of-data and leave their loops.
C28_ReadersTerminate ==
    \A c \in 1..MaxChildren : Stopped(c) ~> ReadersDone(c)

\* a child stopped after its reader had handled a chunk has both readers done
C28_Witness ==
    /\ Len(children) = 1
    /\ daemonRef = 0
    /\ Child(1).out # <<>>
    /\ ReadersDone(1)

\* C29: once a submitted task's completion marker has been observed, the
\* loading flag set by handleSubmit eventually becomes false (unless the
\* program has ended before).
C29_LoadingResetOnDone ==
    (/\ loading
     /\ \E i, j \in DOMAIN messages :
            /\ i < j
            /\ messages[i].type = "user"
            /\ messages[j].type = "done")
        ~> (~loading \/ exited)

\* a step in which startDaemon spawned a child
Spawned == Len(children') = Len(children) + 1

\* C30: startDaemon is called only in stage done; the first call is the
\* start effect's, made once with the configuration onboarding ended with,
\* every later call comes from a model switch, and once stage done is
\* reached the initial start does happen unless the program ends first.
C30_StartAfterOnboarding ==
    /\ [][Spawned => stage = "done" /\ stage' = "done"]_vars
    /\ [][(Spawned /\ children = <<>>)
            => /\ ~daemonStarted /\ daemonStarted'
               /\ children'[1].args = config]_vars
    /\ [][(Spawned /\ children # <<>>)
            => /\ daemonStarted /\ daemonStarted'
               /\ messages'[Len(messages')] = Msg("system", RESTARTING_MSG)]_vars
    /\ [][stage = "done" => stage' = "done"]_vars
    /\ (stage = "done") ~> (daemonStarted \/ exited)

\* onboarding went through the provider list and the key input, the daemon
\* was started with the chosen model and restarted by a model switch
C30_Witness ==
    /\ stage = "done"
    /\ Len(children) = 2
    /\ children[1].args = [provider |-> "google", model |-> "gemini-3-flash"]
    /\ children[2].args = DEFAULT_CONFIG
    /\ config = DEFAULT_CONFIG
    /\ \E i \in DOMAIN messages :
           messages[i] = UsingMsg([provider |-> "google", model |-> "gemini-3-flash"])

\* C31: the onboarding stages move only along check -> done (exactly when
\* the stored configuration has a key for its provider), check ->
\* pick-provider (otherwise), pick-provider -> enter-key with a pending
\* choice, enter-key -> done with the choice and its key set and written to
\* the configuration file, enter-key -> pick-provider; done is never left,
\* and in stage enter-key a pending choice is always set.
C31_OnboardingMachine ==
    /\ [][(stage = "check" /\ stage' # "check")
            => stage' = (IF configFile.provider \in configFile.apiKeys
                         THEN "done" ELSE "pick-provider")]_vars
    /\ [][(stage = "pick-provider" /\ stage' # "pick-provider")
            => stage' = "enter-key" /\ pending' \in AppConfigs]_vars
    /\ [][(stage = "enter-key" /\ stage' # "enter-key")
            => \/ /\ stage' = "done"
                  /\ config' = pending
                  /\ pending.provider \in apiKeys'
                  /\ configFile' = [provider |-> pending.provider,
                                    model |-> pending.model,
                                    apiKeys |-> apiKeys']
               \/ /\ stage' = "pick-provider"
                  /\ pending' = NoPending
                  /\ UNCHANGED <<config, apiKeys, configFile>>]_vars
    /\ [][stage = "done" => UNCHANGED stage]_vars
    /\ [](stage = "enter-key" => pending \in AppConfigs)

\* onboarding ended through the key input: a key was added for the chosen
\* provider and written to the file
C31_Witness ==
    /\ stage = "done"
    /\ config = DEFAULT_CONFIG
    /\ apiKeys = {"browser-use", "google"}
    /\ configFile = FileOf(DEFAULT_CONFIG, apiKeys)

\* the number of handleSubmit calls so far: each adds one "user" message
Submissions == Cardinality({i \in DOMAIN messages : messages[i].type = "user"})

\* C32: with a prompt argument the prompt is submitted at most once in the
\* whole session, by a step taken while the daemon is reported ready, which
\* writes the prompt to the ready child; the sent mark is never cleared, so
\* no later change of readiness submits it again.
C32_PromptSubmittedOnce ==
    /\ [](Submissions <= 1 /\ nSends <= 1 /\ (initialPromptSent <=> Submissions = 1))
    /\ [][Submissions' > Submissions
            => /\ isReady /\ isReadyRef /\ daemonRef # 0
               /\ ~initialPromptSent
               /\ children'[daemonRef].stdin = <<appPrompt \o "\n">>]_vars
    /\ [][initialPromptSent => initialPromptSent']_vars

\* the prompt was submitted, answered, and the session went on to its end
C32_Witness ==
    /\ appPrompt = "x"
    /\ Submissions = 1
    /\ DoneCount = 1
    /\ exited
    /\ ~isReady

\* the frames that are no command: no JSON, or of a type that is neither
\* task nor start_daemon
NotCommands == { "{\"type\":\"ping\"}", "ping" }

\* C33: a frame that is not valid JSON, or whose type is neither task nor
\* start_daemon, gets exactly one error reply, sent to its sender alone; the
\* daemon, its readiness, the subscribers, the broadcasts and every other
\* client are as before.
C33_BadFrameOneErrorToSender ==
    [][\A c \in Sockets, m \in NotCommands :
          WsMessage(c, m)
          => /\ Len(conns'[c].inbox) = Len(conns[c].inbox) + 1
             /\ SubSeq(conns'[c].inbox, 1, Len(conns[c].inbox)) = conns[c].inbox
             /\ conns'[c].inbox[Len(conns'[c].inbox)].ev.type = "error"
             /\ conns'[c].inbox[Len(conns'[c].inbox)].n = 0
             /\ conns'[c].state = conns[c].state
             /\ \A d \in Sockets \ {c} : conns'[d] = conns[d]
             /\ UNCHANGED <<srvProcess, srvReady, clients, bcastLog,
                            pendingStarts, children>>]_vars

\* ws1 sent both kinds of frame while ws2 was open: ws1 holds the two
\* replies after its status, ws2 its status alone
C33_Witness ==
    /\ conns["ws1"].state = "OPEN"
    /\ conns["ws2"].state = "OPEN"
    /\ Len(conns["ws1"].inbox) = 3
    /\ conns["ws1"].inbox[2].ev = Msg("error", "Invalid message: SyntaxError")
    /\ conns["ws1"].inbox[3].ev = Msg("error", "Unknown command: ping")
    /\ Len(conns["ws2"].inbox) = 1

\* the children of the server whose stdout reader loop is still running
SrvReading == {c \in ChildIds : Child(c).stdoutPc = "reading"}

\* the children of the server that have not exited
SrvLive == {c \in ChildIds : Child(c).alive}

\* C34: whatever the order of the start requests (the call at launch, a
\* start_daemon of each client) around the await in startDaemon, the server
\* has at most one child process and at most one stdout reader loop.
C34_OneChildOneReader ==
    /\ Cardinality(SrvLive) <= 1
    /\ Cardinality(SrvReading) <= 1

\* ------------------------------------------------ the web client's status
\* the status of a client that has handled the messages of its inbox
RECURSIVE StatusAfter(_, _)
StatusAfter(cur, inbox) ==
    IF inbox = <<>> THEN cur
    ELSE StatusAfter(OnStatusMessage(cur, Head(inbox).ev), Tail(inbox))

StatusView(c) == StatusAfter("disconnected", conns[c].inbox)

\* the state of the server's supervisor: no child, a child not yet ready, a
\* ready child with a task written to it and not yet answered, a ready child
SrvSupState ==
    IF srvProcess = 0 THEN "disconnected"
    ELSE IF ~srvReady THEN "starting"
    ELSE IF Len(Child(srvProcess).stdin)
              > Occurrences(Concat(Child(srvProcess).out), DONE_MARKER)
         THEN "running"
    ELSE "ready"

\* C35: every status message carries one of the four state names, and the
\* status of every connected client that has handled all it was sent equals
\* the state of the server's supervisor, also for a client that connected
\* while the daemon was starting or a task was running.
C35_StatusViewTracksSupervisor ==
    /\ \A i \in DOMAIN bcastLog :
           bcastLog[i].type = "status" => bcastLog[i].text \in STATUS_NAMES
    /\ \A c \in Sockets :
           /\ \A i \in DOMAIN conns[c].inbox :
                  conns[c].inbox[i].ev.type = "status"
                  => conns[c].inbox[i].ev.text \in STATUS_NAMES
           /\ conns[c].state = "OPEN" => StatusView(c) = SrvSupState

\* C36: once disconnect() has run at unmount, no reconnect timer is armed
\* and the hook creates no further socket.
C36_QuietAfterDisconnect ==
    /\ [](effect = "cleaned" => \A t \in DOMAIN timeouts : timeouts[t] # "armed")
    /\ [][effect = "cleaned" => Len(webSockets') = Len(webSockets)]_vars

\* C37: no two sockets of the hook are connecting or open at the same time,
\* and no message of the server is in the message list twice.
C37_OneLiveSocket ==
    /\ Cardinality(Connected) <= 1
    /\ \A i, j \in DOMAIN webMessages :
           (i # j /\ webMessages[i].n > 0) => webMessages[i].n # webMessages[j].n

\* the events of the server as the segments and markers they stand for: a
\* status event and the output of the segment that latched are no segment of
\* useDaemon's list, an output is the segment it carries, a done is a marker
RECURSIVE SegmentsAndMarkers(_)
SegmentsAndMarkers(evs) ==
    IF evs = <<>> THEN <<>>
    ELSE LET ev == Head(evs)
         IN  CASE ev.type = "status" ->
                    SegmentsAndMarkers(IF Len(evs) > 1 THEN Tail(Tail(evs)) ELSE <<>>)
               [] ev.type = "output" ->
                    <<Classify(Trim(ev.text))>> \o SegmentsAndMarkers(Tail(evs))
               [] ev.type = "done" ->
                    <<Msg("done", DONE_TEXT)>> \o SegmentsAndMarkers(Tail(evs))
               [] OTHER -> SegmentsAndMarkers(Tail(evs))

\* C38: for the same stdout chunks of one child, useDaemon and the server
\* have latched readiness after the same chunks and at the same segment,
\* and their done events stand at the same places among the same non-empty
\* segments.
C38_SupervisorsAgree ==
    /\ isReadyRef = srvReady
    /\ messages = SegmentsAndMarkers(bcastLog)
    /\ DoneCount = Cardinality({i \in DOMAIN bcastLog : bcastLog[i].type = "done"})

\* both latched inside a chunk, between two markers
C38_Witness ==
    /\ Child(1).out = <<"__DO", "a__DONE__Browser started__DONE__b">>
    /\ isReadyRef /\ srvReady
    /\ DoneCount = 2
    /\ Len(messages) = 5

====
